---------------------------- MODULE Spec2Model ----------------------------
(***************************************************************************)
(* A model of src/flask_api.py: the historical-volatility estimator, the   *)
(* Black-Scholes pricer and the /calculate request handler.                *)
(*                                                                         *)
(* Floating-point values are modelled as fixed-point numbers, an integer   *)
(* count of 1/Scale units, extended with NaN.  Infinities and overflow are *)
(* outside the model: every input set below is finite and moderate.        *)
(* The library functions the code calls (np.log, np.exp, np.sqrt,          *)
(* norm.cdf, pandas' pct_change / dropna / std) are modelled by what they  *)
(* compute, at the resolution of the fixed-point format.                   *)
(***************************************************************************)
EXTENDS Integers, Sequences, FiniteSets, TLC

VARIABLES
    pc,          \* where the caller is: the handler's position, or a harness
    request,     \* the raw query arguments of the request in progress
    ticker,      \* calculate's locals
    strike,
    time,
    market,      \* what the provider answered for this request
    stock_data,
    bs,          \* the frame of the black_scholes call in progress
    bsCalls,     \* black_scholes calls made for the request in progress
    call_res,    \* (call_price, call_pnl)
    put_res,     \* (put_price, put_pnl)
    response,    \* the response returned by the handler
    nresp,       \* responses returned for the request in progress
    escaped,     \* an exception left the handler
    last,        \* the latest direct call of a core function: arguments, outcome
    prev         \* the direct call before it

vars == << pc, request, ticker, strike, time, market, stock_data, bs, bsCalls,
           call_res, put_res, response, nresp, escaped, last, prev >>

handlerVars == << request, ticker, strike, time, market, stock_data, bsCalls,
                  call_res, put_res, response, nresp, escaped >>
logVars == << last, prev >>

\* Fixed-point resolution: a number x stands for x / Scale.
Scale == 1000

\* Longest price history the market-data provider returns in the model.
MaxLen == 3

-----------------------------------------------------------------------------
(* Floats: [k |-> "num", v |-> units], NaN, and Python's None.             *)

Num(i) == [k |-> "num", v |-> i]
NaN == [k |-> "nan", v |-> 0]
None == [k |-> "none", v |-> 0]

IsNum(a) == a.k = "num"
IsNaN(a) == a.k = "nan"

\* IEEE comparisons: every comparison with NaN is false.
Le(a, b) == IsNum(a) /\ IsNum(b) /\ a.v <= b.v
Gt(a, b) == IsNum(a) /\ IsNum(b) /\ a.v > b.v

Zero == Num(0)

\* Integer helpers.
Abs(i) == IF i < 0 THEN -i ELSE i

\* Division rounding to nearest (ties away from zero), d > 0.
RDiv(n, d) == IF n >= 0 THEN (2 * n + d) \div (2 * d)
                        ELSE -((2 * (-n) + d) \div (2 * d))

RECURSIVE ISqrtFrom(_, _, _)
ISqrtFrom(n, lo, hi) ==
    IF lo >= hi THEN lo
    ELSE LET mid == (lo + hi + 1) \div 2
         IN IF mid * mid <= n THEN ISqrtFrom(n, mid, hi)
                              ELSE ISqrtFrom(n, lo, mid - 1)

\* Largest k with k*k <= n, for 0 <= n < 2^30.
ISqrt(n) == ISqrtFrom(n, 0, 32767)

\* Arithmetic on floats: NaN propagates.
Add(a, b) == IF IsNum(a) /\ IsNum(b) THEN Num(a.v + b.v) ELSE NaN
Sub(a, b) == IF IsNum(a) /\ IsNum(b) THEN Num(a.v - b.v) ELSE NaN
Neg(a) == IF IsNum(a) THEN Num(-a.v) ELSE NaN
Mul(a, b) == IF IsNum(a) /\ IsNum(b) THEN Num(RDiv(a.v * b.v, Scale)) ELSE NaN
\* x / 0 with numpy operands is inf or NaN; the model has no inf, so NaN.
Div(a, b) == IF IsNum(a) /\ IsNum(b) /\ b.v # 0
             THEN Num(IF b.v > 0 THEN RDiv(a.v * Scale, b.v)
                                 ELSE RDiv(-(a.v * Scale), -b.v))
             ELSE NaN

\* Python's built-in max(a, b): a unless b > a.
Max(a, b) == IF Gt(b, a) THEN b ELSE a

\* np.sqrt: NaN for a negative or NaN argument.
Sqrt(a) == IF IsNum(a) /\ a.v >= 0 THEN Num(ISqrt(a.v * Scale)) ELSE NaN

\* ln(q/Scale)*Scale for q in [Scale/2, 2*Scale]: 2*atanh((q-1)/(q+1)).
LnCore(q) ==
    LET z  == RDiv((q - Scale) * Scale, q + Scale)
        z2 == RDiv(z * z, Scale)
        z3 == RDiv(z * z2, Scale)
        z5 == RDiv(z3 * z2, Scale)
        z7 == RDiv(z5 * z2, Scale)
    IN RDiv(2 * (105 * z + 35 * z3 + 21 * z5 + 15 * z7), 105)

RECURSIVE LnUnits(_)
LnUnits(q) ==
    IF q > 2 * Scale THEN LnUnits(RDiv(q, 2)) + 693     \* ln 2
    ELSE IF 2 * q < Scale THEN LnUnits(2 * q) - 693
    ELSE LnCore(q)

\* np.log: NaN for a non-positive or NaN argument (numpy gives -inf at 0).
Log(a) == IF IsNum(a) /\ a.v > 0 THEN Num(LnUnits(a.v)) ELSE NaN

\* exp(x/Scale)*Scale for |x| <= Scale/2, by its Taylor series.
ExpCore(x) ==
    LET x2 == RDiv(x * x, Scale)
        x3 == RDiv(x2 * x, Scale)
        x4 == RDiv(x3 * x, Scale)
        x5 == RDiv(x4 * x, Scale)
    IN Scale + x + RDiv(60 * x2 + 20 * x3 + 5 * x4 + x5, 120)

RECURSIVE ExpUnits(_)
ExpUnits(x) ==
    IF x < -8 * Scale THEN 0
    ELSE IF 2 * Abs(x) > Scale
         THEN LET h == ExpUnits(x \div 2) IN RDiv(h * h, Scale)
    ELSE ExpCore(x)

\* np.exp.
Exp(a) == IF IsNum(a) THEN Num(ExpUnits(a.v)) ELSE NaN

\* The standard normal CDF at 0.0, 0.1, ..., 4.0, in units.
NormTable ==
    << 500, 540, 579, 618, 655, 691, 726, 758, 788, 816,
       841, 864, 885, 903, 919, 933, 945, 955, 964, 971,
       977, 982, 986, 989, 992, 994, 995, 997, 997, 998,
       999, 999, 999, 1000, 1000, 1000, 1000, 1000, 1000, 1000, 1000 >>

\* The CDF at x >= 0 units, interpolated between the table's points.
NormUpper(x) ==
    IF x >= 4 * Scale THEN Scale
    ELSE LET i == x \div 100
             f == x % 100
             a == NormTable[i + 1]
             b == NormTable[i + 2]
         IN a + RDiv((b - a) * f, 100)

\* scipy.stats.norm.cdf: computed on |x| and reflected for x < 0.
norm_cdf(a) ==
    IF ~IsNum(a) THEN NaN
    ELSE IF a.v >= 0 THEN Num(NormUpper(a.v))
    ELSE Num(Scale - NormUpper(-a.v))

-----------------------------------------------------------------------------
(* calculate_historical_volatility (lines 9-15).                           *)

\* Trading periods per year (line 15).
TradingDays == 252

\* hist['Close'].pct_change(): NaN first, then price[i]/price[i-1] - 1.
pct_change(close) ==
    [i \in 1..Len(close) |->
        IF i = 1 THEN NaN
        ELSE Sub(Div(Num(close[i]), Num(close[i - 1])), Num(Scale))]

\* Series.dropna(): the non-NaN entries, in order.
dropna(xs) == SelectSeq(xs, LAMBDA x : ~IsNaN(x))

RECURSIVE SumUnits(_)
SumUnits(xs) == IF xs = <<>> THEN 0 ELSE Head(xs).v + SumUnits(Tail(xs))

RECURSIVE SumSqDev(_, _)
SumSqDev(xs, m) ==
    IF xs = <<>> THEN 0
    ELSE (Head(xs).v - m) * (Head(xs).v - m) + SumSqDev(Tail(xs), m)

\* Degrees of freedom removed by Series.std(), pandas' default ddof.
Ddof == 1

\* Series.std(): the sample standard deviation; NaN when count <= ddof.
std(xs) ==
    LET n == Len(xs)
    IN IF n <= Ddof THEN NaN
       ELSE LET m == RDiv(SumUnits(xs), n)
            IN Num(ISqrt(SumSqDev(xs, m) \div (n - Ddof)))

\* Mutant of annualize: the factor added instead of multiplied.
annualize_added(sd) == Add(sd, Sqrt(Num(TradingDays * Scale)))

\* daily_returns.std() * np.sqrt(252)
annualize(sd) == Mul(sd, Sqrt(Num(TradingDays * Scale)))

\* Exception messages: a text and the value formatted into it.
Msg(text, arg) == [text |-> text, arg |-> arg]
NoMsg == Msg("", "")

\* The outcome of a call: a returned float, or a raised exception.
Returned(x) == [exc |-> "", msg |-> NoMsg, val |-> x]
Raised(e, m) == [exc |-> e, msg |-> m, val |-> None]

\* Mutant of calculate_historical_volatility: the estimate of the latest
\* call is kept per ticker and returned again, whatever the history is now.
calculate_historical_volatility_cached(tk, hist) ==
    IF last.fn = "calculate_historical_volatility" /\ last.args = << tk >>
    THEN last.out
    ELSE IF hist = <<>>
    THEN Raised("ValueError", Msg("No historical data found for", tk))
    ELSE Returned(annualize(std(dropna(pct_change(hist)))))

\* The function's result on the history the provider returned for the
\* ticker (stock.history(period=period), line 11).
calculate_historical_volatility(tk, hist) ==
    IF hist = <<>>
    THEN Raised("ValueError", Msg("No historical data found for", tk))
    ELSE Returned(annualize(std(dropna(pct_change(hist)))))

-----------------------------------------------------------------------------
(* black_scholes (lines 17-33).                                            *)

\* Mutant of BsDegenerate: strict comparisons, so a zero passes.
BsDegenerate_strict(S, K, T, sigma) ==
    \/ Le(S, Zero) /\ S # Zero
    \/ Le(K, Zero) /\ K # Zero
    \/ Le(T, Zero) /\ T # Zero
    \/ Le(sigma, Zero) /\ sigma # Zero

\* Line 18: the degenerate-input test.
BsDegenerate(S, K, T, sigma) ==
    Le(S, Zero) \/ Le(K, Zero) \/ Le(T, Zero) \/ Le(sigma, Zero)

\* Mutant of BsValidType: the test left out, anything else priced as a put.
BsValidType_unchecked(option_type) == TRUE

\* Line 20.
BsValidType(option_type) == option_type \in {"call", "put"}

\* Line 23.
BsD1(S, K, T, r, sigma) ==
    Div(Add(Log(Div(S, K)),
            Mul(Add(r, Mul(Num(Scale \div 2), Mul(sigma, sigma))), T)),
        Mul(sigma, Sqrt(T)))

\* Line 24.
BsD2(d1, T, sigma) == Sub(d1, Mul(sigma, Sqrt(T)))

\* K * np.exp(-r * T)
Discounted(K, r, T) == Mul(K, Exp(Mul(Neg(r), T)))

\* Lines 27 and 30.
BsPriceOf(S, K, T, r, d1, d2, option_type) ==
    IF option_type = "call"
    THEN Sub(Mul(S, norm_cdf(d1)), Mul(Discounted(K, r, T), norm_cdf(d2)))
    ELSE Sub(Mul(Discounted(K, r, T), norm_cdf(Neg(d2))),
             Mul(S, norm_cdf(Neg(d1))))

\* Mutant of BsIntrinsic: the put's intrinsic value taken as the call's.
BsIntrinsic_callOnly(S, K, option_type) == Max(Sub(S, K), Zero)

\* Lines 28 and 31.
BsIntrinsic(S, K, option_type) ==
    IF option_type = "call" THEN Max(Sub(S, K), Zero)
                            ELSE Max(Sub(K, S), Zero)

\* What a call returns or raises.
BsReturn(price, pnl) ==
    [exc |-> "", msg |-> NoMsg, price |-> price, pnl |-> pnl]
BsRaise(e, m) == [exc |-> e, msg |-> m, price |-> None, pnl |-> None]
NoRet == [exc |-> "pending", msg |-> NoMsg, price |-> None, pnl |-> None]

\* The whole function, from its arguments to what it returns or raises.
black_scholes(S, K, T, r, sigma, option_type) ==
    IF BsDegenerate(S, K, T, sigma) THEN BsReturn(Zero, Zero)
    ELSE IF ~BsValidType(option_type)
         THEN BsRaise("ValueError", Msg("option_type must be 'call' or 'put'", ""))
    ELSE LET d1 == BsD1(S, K, T, r, sigma)
             d2 == BsD2(d1, T, sigma)
             price == BsPriceOf(S, K, T, r, d1, d2, option_type)
         IN BsReturn(price, Sub(price, BsIntrinsic(S, K, option_type)))

-----------------------------------------------------------------------------
(* get_stock_data (lines 35-47) and the market-data provider.              *)

\* Closing prices the provider may report, in units.
HistPrices == {100 * Scale, 110 * Scale}

RECURSIVE SeqsUpTo(_, _)
SeqsUpTo(S, n) ==
    IF n = 0 THEN {<<>>}
    ELSE LET shorter == SeqsUpTo(S, n - 1)
         IN shorter \cup {Append(h, p) : h \in {x \in shorter : Len(x) = n - 1},
                                         p \in S}

\* The one-year histories stock.history(period="1y") may return.
Histories == SeqsUpTo(HistPrices, MaxLen)

\* stock.history(period="1d"): empty (None here), or its last close.
DayCloses == {None, Zero} \cup {Num(p) : p \in HistPrices}

\* stock.info: the beta and trailingPE entries, present or not.
Infos == {[beta |-> None, pe_ratio |-> None],
          [beta |-> Num(1200), pe_ratio |-> Num(25 * Scale)]}

\* What the provider answers during one get_stock_data call; with the
\* connection down its first call raises.
Markets ==
    [net : {"ok"}, day : DayCloses, year : Histories, info : Infos]
    \cup {[net |-> "down", day |-> None, year |-> <<>>, info |-> i] :
            i \in {[beta |-> None, pe_ratio |-> None]}}
NoMarket == [net |-> "unused", day |-> None, year |-> <<>>,
             info |-> [beta |-> None, pe_ratio |-> None]]

NoData == [price |-> None, volatility |-> None, beta |-> None, pe_ratio |-> None]
DataReturned(d) == [exc |-> "", msg |-> NoMsg, data |-> d]
DataRaised(m) == [exc |-> "ValueError", msg |-> m, data |-> NoData]

\* str(e) wrapped by line 47.
Wrapped(m) == Msg("Error fetching data: ", m)

get_stock_data(tk, m) ==
    IF m.net = "down" THEN DataRaised(Wrapped(Msg("connection failed", "")))
    ELSE LET vol == calculate_historical_volatility(tk, m.year)
         IN IF vol.exc # "" THEN DataRaised(Wrapped(vol.msg))
            ELSE DataReturned([price |-> m.day, volatility |-> vol.val,
                               beta |-> m.info.beta,
                               pe_ratio |-> m.info.pe_ratio])

-----------------------------------------------------------------------------
(* calculate (lines 49-84): the /calculate handler.                        *)

\* Risk-free rate (line 58), in units: 0.05.
RiskFreeRate == 50

\* Digits kept by round(., 4) (lines 73-80).
RoundDigits == 4

\* A query argument that is not in the request (request.args.get -> None).
Absent == "<absent>"

RawTickers == {Absent, "aapl", "AAPL"}
StrikeArgs == {Absent, "abc", "nan", "-1", "0", "90", "100", "110"}
TimeArgs == {Absent, "abc", "nan", "0", "0.5", "1"}

\* request.args.get('ticker', '').upper()
Upper(tk) == CASE tk = Absent -> ""
               [] tk = "aapl" -> "AAPL"
               [] OTHER -> tk

\* float(s): the float, or the exception it raises.
float(s) ==
    CASE s = Absent -> Raised("TypeError", NoMsg)
      [] s = "nan"  -> Returned(NaN)
      [] s = "-1"   -> Returned(Num(-Scale))
      [] s = "0"    -> Returned(Zero)
      [] s = "0.5"  -> Returned(Num(Scale \div 2))
      [] s = "1"    -> Returned(Num(Scale))
      [] s = "90"   -> Returned(Num(90 * Scale))
      [] s = "100"  -> Returned(Num(100 * Scale))
      [] s = "110"  -> Returned(Num(110 * Scale))
      [] OTHER      -> Raised("ValueError", NoMsg)

\* Mutant of ParseCaught: TypeError forgotten.
ParseCaught_valueOnly == {"ValueError"}

\* Line 55: the exceptions the parse's except clause catches.
ParseCaught == {"TypeError", "ValueError"}

\* Python truthiness of a float or None: None and 0.0 are false, NaN true.
Truthy(x) == ~(x = None \/ x = Zero)

RECURSIVE Pow10(_)
Pow10(n) == IF n = 0 THEN 1 ELSE 10 * Pow10(n - 1)

\* round(x, nd): to the nearest multiple of 10^-nd; NaN stays NaN.
Round(x, nd) ==
    IF ~IsNum(x) THEN x
    ELSE IF Pow10(nd) >= Scale THEN x
    ELSE LET step == Scale \div Pow10(nd) IN Num(RDiv(x.v, step) * step)

-----------------------------------------------------------------------------
(* State.                                                                  *)


\* A black_scholes frame: its arguments, its position, its locals.
Frame(S, K, T, r, sigma, option_type) ==
    [pc |-> "guard", S |-> S, K |-> K, T |-> T, r |-> r, sigma |-> sigma,
     option_type |-> option_type, d1 |-> None, d2 |-> None, ret |-> NoRet]
IdleFrame ==
    [pc |-> "idle", S |-> None, K |-> None, T |-> None, r |-> None,
     sigma |-> None, option_type |-> "", d1 |-> None, d2 |-> None,
     ret |-> NoRet]

NoRequest == [ticker |-> Absent, strike |-> Absent, time |-> Absent]
NoBody == [ticker |-> "", stock_price |-> None, volatility |-> None,
           beta |-> None, pe_ratio |-> None, call_price |-> None,
           call_pnl |-> None, put_price |-> None, put_pnl |-> None]
NoResponse == [status |-> 0, error |-> NoMsg, body |-> NoBody]
ErrorResponse(status, m) == [status |-> status, error |-> m, body |-> NoBody]
NoCall == [fn |-> "none", args |-> <<>>, hist |-> <<>>, out |-> NoRet]

InitCommon ==
    /\ request = NoRequest
    /\ ticker = ""
    /\ strike = None
    /\ time = None
    /\ market = NoMarket
    /\ stock_data = NoData
    /\ bs = IdleFrame
    /\ bsCalls = 0
    /\ call_res = NoRet
    /\ put_res = NoRet
    /\ response = NoResponse
    /\ nresp = 0
    /\ escaped = FALSE
    /\ last = NoCall
    /\ prev = NoCall

-----------------------------------------------------------------------------
(* The steps of black_scholes.                                             *)

\* Line 18-19.
BsGuard ==
    /\ bs.pc = "guard"
    /\ bs' = IF BsDegenerate(bs.S, bs.K, bs.T, bs.sigma)
             THEN [bs EXCEPT !.pc = "done", !.ret = BsReturn(Zero, Zero)]
             ELSE [bs EXCEPT !.pc = "type"]
    /\ UNCHANGED << pc, handlerVars, logVars >>

\* Line 20-21.
BsType ==
    /\ bs.pc = "type"
    /\ bs' = IF BsValidType(bs.option_type)
             THEN [bs EXCEPT !.pc = "d1d2"]
             ELSE [bs EXCEPT !.pc = "done",
                             !.ret = BsRaise("ValueError",
                                 Msg("option_type must be 'call' or 'put'", ""))]
    /\ UNCHANGED << pc, handlerVars, logVars >>

\* Lines 23-24.
BsD1D2 ==
    /\ bs.pc = "d1d2"
    /\ LET d1 == BsD1(bs.S, bs.K, bs.T, bs.r, bs.sigma)
       IN bs' = [bs EXCEPT !.pc = "price", !.d1 = d1,
                           !.d2 = BsD2(d1, bs.T, bs.sigma)]
    /\ UNCHANGED << pc, handlerVars, logVars >>

\* Lines 26-33.
BsPrice ==
    /\ bs.pc = "price"
    /\ LET price == BsPriceOf(bs.S, bs.K, bs.T, bs.r, bs.d1, bs.d2,
                              bs.option_type)
           intrinsic == BsIntrinsic(bs.S, bs.K, bs.option_type)
       IN bs' = [bs EXCEPT !.pc = "done",
                           !.ret = BsReturn(price, Sub(price, intrinsic))]
    /\ UNCHANGED << pc, handlerVars, logVars >>

-----------------------------------------------------------------------------
(* The steps of calculate.                                                 *)

\* The handler returns a response: jsonify(...), status.
Reply(r) ==
    /\ response' = r
    /\ nresp' = nresp + 1
    /\ pc' = "done"

\* A request arrives; line 51.
Receive ==
    /\ pc \in {"idle", "done"}
    /\ \E tk \in RawTickers, s \in StrikeArgs, t \in TimeArgs :
          /\ request' = [ticker |-> tk, strike |-> s, time |-> t]
          /\ ticker' = Upper(tk)
    /\ pc' = "parse"
    /\ strike' = None
    /\ time' = None
    /\ market' = NoMarket
    /\ stock_data' = NoData
    /\ bs' = IdleFrame
    /\ bsCalls' = 0
    /\ call_res' = NoRet
    /\ put_res' = NoRet
    /\ response' = NoResponse
    /\ nresp' = 0
    /\ escaped' = FALSE
    /\ UNCHANGED logVars

\* Lines 52-56: strike is parsed first, time only if that succeeded.
ParseArgs ==
    /\ pc = "parse"
    /\ LET ps == float(request.strike)
           pt == float(request.time)
           exc == IF ps.exc # "" THEN ps.exc ELSE pt.exc
       IN IF exc = ""
          THEN /\ strike' = ps.val
               /\ time' = pt.val
               /\ pc' = "fetch"
               /\ UNCHANGED << response, nresp, escaped >>
          ELSE IF exc \in ParseCaught
          THEN /\ Reply(ErrorResponse(400,
                        Msg("Invalid strike price or time to expiration", "")))
               /\ UNCHANGED << strike, time, escaped >>
          ELSE /\ escaped' = TRUE
               /\ pc' = "done"
               /\ UNCHANGED << strike, time, response, nresp >>
    /\ UNCHANGED << request, ticker, market, stock_data, bs, bsCalls,
                    call_res, put_res, logVars >>

\* Line 61, and line 84 when get_stock_data raises.
Fetch ==
    /\ pc = "fetch"
    /\ \E m \in Markets :
          /\ market' = m
          /\ LET out == get_stock_data(ticker, m)
             IN IF out.exc # ""
                THEN /\ Reply(ErrorResponse(500, out.msg))
                     /\ UNCHANGED stock_data
                ELSE /\ stock_data' = out.data
                     /\ pc' = "check"
                     /\ UNCHANGED << response, nresp >>
    /\ UNCHANGED << request, ticker, strike, time, bs, bsCalls, call_res,
                    put_res, escaped, logVars >>

\* Mutant of DataUsable: a test for None instead of for truth.
DataUsable_notNone(d) == d.price # None /\ d.volatility # None

\* Line 62: the test that lets the request go on to pricing.
DataUsable(d) == Truthy(d.price) /\ Truthy(d.volatility)

\* Lines 62-68: the check, then the call for the call option.
Check ==
    /\ pc = "check"
    /\ IF ~DataUsable(stock_data)
       THEN /\ Reply(ErrorResponse(500, Msg("Failed to fetch stock data", "")))
            /\ UNCHANGED << bs, bsCalls >>
       ELSE /\ bs' = Frame(stock_data.price, strike, time, Num(RiskFreeRate),
                           stock_data.volatility, "call")
            /\ bsCalls' = bsCalls + 1
            /\ pc' = "call"
            /\ UNCHANGED << response, nresp >>
    /\ UNCHANGED << request, ticker, strike, time, market, stock_data,
                    call_res, put_res, escaped, logVars >>

\* The arguments of the second call, line 69.
PutFrame ==
    Frame(stock_data.price, strike, time, Num(RiskFreeRate),
          stock_data.volatility, "put")

\* Line 68 returns (or raises into line 84); line 69 calls for the put.
CallReturn ==
    /\ pc = "call"
    /\ bs.pc = "done"
    /\ IF bs.ret.exc # ""
       THEN /\ Reply(ErrorResponse(500, bs.ret.msg))
            /\ bs' = IdleFrame
            /\ UNCHANGED << call_res, bsCalls >>
       ELSE /\ call_res' = bs.ret
            /\ bs' = PutFrame
            /\ bsCalls' = bsCalls + 1
            /\ pc' = "put"
            /\ UNCHANGED << response, nresp >>
    /\ UNCHANGED << request, ticker, strike, time, market, stock_data,
                    put_res, escaped, logVars >>

\* Line 69 returns (or raises into line 84).
PutReturn ==
    /\ pc = "put"
    /\ bs.pc = "done"
    /\ bs' = IdleFrame
    /\ IF bs.ret.exc # ""
       THEN /\ Reply(ErrorResponse(500, bs.ret.msg))
            /\ UNCHANGED put_res
       ELSE /\ put_res' = bs.ret
            /\ pc' = "build"
            /\ UNCHANGED << response, nresp >>
    /\ UNCHANGED << request, ticker, strike, time, market, stock_data,
                    bsCalls, call_res, escaped, logVars >>

\* Lines 71-81.
ResponseBody ==
    [ticker |-> ticker,
     stock_price |-> Round(stock_data.price, RoundDigits),
     volatility |-> Round(stock_data.volatility, RoundDigits),
     beta |-> stock_data.beta,
     pe_ratio |-> stock_data.pe_ratio,
     call_price |-> Round(call_res.price, RoundDigits),
     call_pnl |-> Round(call_res.pnl, RoundDigits),
     put_price |-> Round(put_res.price, RoundDigits),
     put_pnl |-> Round(put_res.pnl, RoundDigits)]

\* Line 82.
Respond ==
    /\ pc = "build"
    /\ Reply([status |-> 200, error |-> NoMsg, body |-> ResponseBody])
    /\ UNCHANGED << request, ticker, strike, time, market, stock_data, bs,
                    bsCalls, call_res, put_res, escaped, logVars >>

Init == InitCommon /\ pc = "idle"

Next ==
    \/ Receive
    \/ ParseArgs
    \/ Fetch
    \/ Check
    \/ BsGuard
    \/ BsType
    \/ BsD1D2
    \/ BsPrice
    \/ CallReturn
    \/ PutReturn
    \/ Respond

\* The service: requests handled one after another.
Spec == Init /\ [][Next]_vars

-----------------------------------------------------------------------------
(* black_scholes called directly, on arguments of every kind.              *)

PricerSpots == {NaN, Zero, Num(90 * Scale), Num(100 * Scale), Num(110 * Scale)}
PricerStrikes == {NaN, Num(-Scale), Zero, Num(90 * Scale), Num(100 * Scale)}
PricerTimes == {NaN, Zero, Num(-Scale), Num(Scale \div 2), Num(Scale)}
PricerRates == {Num(-50), Zero, Num(50)}
PricerSigmas == {NaN, Zero, Num(-200), Num(200), Num(400)}
OptionTypes == {"call", "put", "bond", "CALL"}

PricerCall ==
    /\ pc = "pricer"
    /\ bs.pc = "idle"
    /\ \E S \in PricerSpots, K \in PricerStrikes, T \in PricerTimes,
          r \in PricerRates, sigma \in PricerSigmas, ot \in OptionTypes :
          bs' = Frame(S, K, T, r, sigma, ot)
    /\ UNCHANGED << pc, handlerVars, logVars >>

\* The caller takes what the call returned or raised.
PricerReturn ==
    /\ pc = "pricer"
    /\ bs.pc = "done"
    /\ bs' = IdleFrame
    /\ UNCHANGED << pc, handlerVars, logVars >>

InitPricer == InitCommon /\ pc = "pricer"

NextPricer ==
    \/ PricerCall
    \/ PricerReturn
    \/ BsGuard
    \/ BsType
    \/ BsD1D2
    \/ BsPrice

SpecPricer == InitPricer /\ [][NextPricer]_vars

-----------------------------------------------------------------------------
(* The two core functions called directly, one call after another, each    *)
(* call recorded with its arguments and its outcome.                       *)

Tickers == {"AAPL", "MSFT"}

CoreStrikes == {Zero, Num(90 * Scale), Num(110 * Scale)}
CoreSigmas == {NaN, Num(200)}
CoreTypes == {"call", "put", "bond"}

\* calculate_historical_volatility(tk): the provider answers with any
\* history, whatever it answered before.
CallEstimator ==
    /\ pc = "core"
    /\ \E tk \in Tickers, h \in Histories :
          last' = [fn |-> "calculate_historical_volatility",
                   args |-> << tk >>, hist |-> h,
                   out |-> calculate_historical_volatility(tk, h)]
    /\ prev' = last
    /\ UNCHANGED << pc, bs, handlerVars >>

CallPricer ==
    /\ pc = "core"
    /\ \E K \in CoreStrikes, sigma \in CoreSigmas, ot \in CoreTypes :
          LET S == Num(100 * Scale)
              T == Num(Scale)
              r == Num(RiskFreeRate)
          IN last' = [fn |-> "black_scholes",
                      args |-> << S, K, T, r, sigma, ot >>, hist |-> <<>>,
                      out |-> black_scholes(S, K, T, r, sigma, ot)]
    /\ prev' = last
    /\ UNCHANGED << pc, bs, handlerVars >>

InitCore == InitCommon /\ pc = "core"

NextCore == CallEstimator \/ CallPricer

SpecCore == InitCore /\ [][NextCore]_vars

-----------------------------------------------------------------------------
(* Properties.                                                             *)

Positive(x) == Gt(x, Zero)
NonPositive(x) == Le(x, Zero)
Flat(h) == \A i, j \in 1..Len(h) : h[i] = h[j]
ZeroPair == BsReturn(Zero, Zero)
EstimatorCalled == last.fn = "calculate_historical_volatility"

\* C1: a black_scholes call with S <= 0, K <= 0, T <= 0 or sigma <= 0
\* returns exactly (0.0, 0.0) and raises nothing, whatever r and option_type.
C1_DegenerateReturnsZero ==
    ( /\ bs.pc = "done"
      /\ \/ NonPositive(bs.S) \/ NonPositive(bs.K)
         \/ NonPositive(bs.T) \/ NonPositive(bs.sigma) )
    => bs.ret = ZeroPair

\* C1 witness: a finished call with T = 0 and option_type 'bond' that
\* returned (0.0, 0.0).
C1_Witness ==
    /\ pc = "pricer"
    /\ bs.pc = "done"
    /\ Positive(bs.S) /\ Positive(bs.K) /\ bs.T = Zero /\ Positive(bs.sigma)
    /\ bs.option_type = "bond"
    /\ bs.ret = ZeroPair

\* C2 as claimed: a call whose option_type is neither 'call' nor 'put' raises
\* the invalid-option-type error, whatever the other arguments are.
C2_InvalidTypeAlwaysRaises ==
    (bs.pc = "done" /\ bs.option_type \notin {"call", "put"})
    => bs.ret.exc = "ValueError"

\* C2 amended: a call whose option_type is neither 'call' nor 'put' raises
\* the invalid-option-type error (a ValueError) and returns nothing when none
\* of S, K, T, sigma is <= 0; when one of them is, it returns (0.0, 0.0).
C2_InvalidTypeRaisesUnlessDegenerate ==
    (bs.pc = "done" /\ bs.option_type \notin {"call", "put"})
    => IF \/ NonPositive(bs.S) \/ NonPositive(bs.K)
          \/ NonPositive(bs.T) \/ NonPositive(bs.sigma)
       THEN bs.ret = ZeroPair
       ELSE /\ bs.ret.exc = "ValueError"
            /\ bs.ret.price = None
            /\ bs.ret.pnl = None

\* C2 witness: a finished call with positive S, K, T, sigma and option_type
\* 'bond' that raised.
C2_Witness ==
    /\ pc = "pricer"
    /\ bs.pc = "done"
    /\ bs.option_type = "bond"
    /\ Positive(bs.S) /\ Positive(bs.K) /\ Positive(bs.T) /\ Positive(bs.sigma)
    /\ bs.ret.exc = "ValueError"

\* C3 as claimed: on a history of fewer than 2 prices, or of 2 prices (fewer
\* than 2 returns), the estimator fails with an error and returns no
\* estimate, in particular no NaN.
C3_ShortHistoryFails ==
    (EstimatorCalled /\ Len(last.hist) <= 2) => last.out.exc # ""

C5_PnlIsPriceMinusIntrinsic ==
    ( /\ bs.pc = "done"
      /\ Positive(bs.S) /\ Positive(bs.K) /\ Positive(bs.T)
      /\ Positive(bs.sigma)
      /\ bs.option_type \in {"call", "put"} )
    => LET in_money == IF bs.option_type = "call" THEN bs.S.v - bs.K.v
                                                  ELSE bs.K.v - bs.S.v
           intrinsic == IF in_money > 0 THEN in_money ELSE 0
       IN /\ bs.ret.exc = ""
          /\ IsNum(bs.ret.price)
          /\ bs.ret.pnl = Num(bs.ret.price.v - intrinsic)
          /\ Le(bs.ret.pnl, bs.ret.price)
          /\ in_money <= 0 => bs.ret.pnl = bs.ret.price

\* C5 witness: a put with S = 90 and K = 100 returned a positive price and
\* that price minus the intrinsic value 10.
C5_Witness ==
    /\ pc = "pricer"
    /\ bs.pc = "done"
    /\ bs.option_type = "put"
    /\ bs.S = Num(90 * Scale) /\ bs.K = Num(100 * Scale)
    /\ Positive(bs.T) /\ Positive(bs.sigma)
    /\ Positive(bs.ret.price)
    /\ bs.ret.pnl = Num(bs.ret.price.v - 10 * Scale)

C8_MathOnlyOnPositiveInputs ==
    bs.pc = "d1d2"
    => Positive(bs.S) /\ Positive(bs.K) /\ Positive(bs.T) /\ Positive(bs.sigma)

\* The volatility estimate for the request in progress, had or raised.
Estimate == calculate_historical_volatility(ticker, market.year)
FailedToFetch == ErrorResponse(500, Msg("Failed to fetch stock data", ""))

\* C9 as claimed: whenever the fetched spot price or the volatility estimate
\* is missing or 0, the handler answers 500 'Failed to fetch stock data' and
\* black_scholes is not invoked.
C9_MissingOrZeroAnswersFailedToFetch ==
    ( /\ pc = "done"
      /\ market.net = "ok"
      /\ \/ market.day \in {None, Zero}
         \/ Estimate.exc # ""
         \/ Estimate.val = Zero )
    => response = FailedToFetch /\ bsCalls = 0

\* C9 amended: whenever get_stock_data returns and the spot price is missing
\* or 0 or the volatility estimate is 0, the handler answers 500 'Failed to
\* fetch stock data'; when get_stock_data raises (no one-year history, so no
\* estimate, or the provider fails) it answers 500 with the message 'Error
\* fetching data: ...'; in both cases black_scholes is not invoked, so no
\* black_scholes call of the handler has a zero spot or a zero volatility.
C9_UnusableDataNeverPriced ==
    /\ ( /\ pc = "done"
         /\ market.net = "ok"
         /\ market.year # <<>>
         /\ market.day \in {None, Zero} \/ Estimate.val = Zero )
       => response = FailedToFetch /\ bsCalls = 0
    /\ ( /\ pc = "done"
         /\ market.net = "down" \/ (market.net = "ok" /\ market.year = <<>>) )
       => /\ response.status = 500
          /\ response.error.text = "Error fetching data: "
          /\ bsCalls = 0
    /\ bs.pc # "idle" => bs.S \notin {None, Zero} /\ bs.sigma \notin {None, Zero}

\* C9 witness: a request with a positive spot and a flat three-price history
\* (estimate 0.0) was answered 500 'Failed to fetch stock data', unpriced.
C9_Witness ==
    /\ pc = "done"
    /\ market.net = "ok"
    /\ Positive(market.day)
    /\ Len(market.year) = 3
    /\ Estimate = Returned(Zero)
    /\ response = FailedToFetch
    /\ bsCalls = 0

\* C10: every request ends in exactly one response and no exception leaves
\* the handler: 400 when strike or time is absent or unparsable, before any
\* fetch or pricing; otherwise 500 with a message when the fetch or the
\* pricing raises or yields no price or volatility; otherwise 200 with
\* call_price, call_pnl, put_price, put_pnl all computed from the same spot,
\* strike, time, rate 0.05 and volatility.
C10_OneResponsePerRequest ==
    /\ pc # "done" => nresp = 0 /\ response = NoResponse
    /\ ~escaped
    /\ pc = "done" =>
         /\ nresp = 1
         /\ LET ps == float(request.strike)
                pt == float(request.time)
                got == get_stock_data(ticker, market)
                S == got.data.price
                sigma == got.data.volatility
            IN IF ps.exc # "" \/ pt.exc # ""
               THEN /\ response.status = 400
                    /\ market = NoMarket
                    /\ bsCalls = 0
               ELSE IF \/ got.exc # ""
                       \/ S \in {None, Zero}
                       \/ sigma \in {None, Zero}
               THEN /\ response.status = 500
                    /\ response.error # NoMsg
               ELSE LET c == black_scholes(S, ps.val, pt.val, Num(50), sigma, "call")
                        p == black_scholes(S, ps.val, pt.val, Num(50), sigma, "put")
                    IN /\ response.status = 200
                       /\ response.error = NoMsg
                       /\ c.exc = "" /\ p.exc = ""
                       /\ response.body.call_price = Round(c.price, 4)
                       /\ response.body.call_pnl = Round(c.pnl, 4)
                       /\ response.body.put_price = Round(p.price, 4)
                       /\ response.body.put_pnl = Round(p.pnl, 4)

\* C10 witness: a request answered 200 with positive call and put prices, the
\* call in the money.
C10_Witness ==
    /\ pc = "done"
    /\ nresp = 1
    /\ response.status = 200
    /\ Positive(response.body.call_price)
    /\ Positive(response.body.put_price)
    /\ response.body.call_pnl # response.body.call_price

=============================================================================
